---- MODULE Spec2Model ----
(***************************************************************************)
(* Resume Ranking API: the two request handlers of app/routers/api.py      *)
(* (/extract-criteria and /score-resumes) with the helpers they call in    *)
(* app/utils/file_utils.py and app/services/llm_service.py.                *)
(*                                                                         *)
(* One behaviour is one HTTP request.  The external collaborators (the PDF *)
(* and DOCX parsers, the LLM provider) are nondeterministic: a parser      *)
(* either yields text or raises, the provider either raises or returns any *)
(* value of the requested pydantic schema.                                 *)
(***************************************************************************)
EXTENDS Integers, Sequences, FiniteSets, TLC

VARIABLES
    endpoint,        \* which handler serves the request
    criteria,        \* score_resumes: the `criteria` form field (list of str)
    n_files,         \* score_resumes: len(file_list)
    pc,              \* position of the handler coroutine
    i,               \* 1-based position in file_list of the file being handled
    file_name,       \* UploadFile.filename of the file being handled
    parser_invoked,  \* which document parser ran for that file
    extracted_text,  \* job_description_text / resume_content: text extracted from that file
    parsed,          \* llm_service.py:45, the value the last LLM call returned
    resume_scores,   \* api.py:151, the list of row dicts
    buffer,          \* api.py:183, the rows the DictWriter wrote, as lists of cells
    response,        \* what the API consumer receives
    error_log,       \* logging.error records, oldest first
    provider_error,  \* the text of the exception the provider raised, if any
    trace            \* the extraction and scoring calls made so far, in order

vars == <<endpoint, criteria, n_files, pc, i, file_name, parser_invoked,
          extracted_text, parsed, resume_scores, buffer, response,
          error_log, provider_error, trace>>

-----------------------------------------------------------------------------
(* Bounds of the model.                                                    *)

MaxResumes == 2      \* longest file_list
MaxScores == 2       \* longest criterion_scores list the provider returns
MaxCriteria == 2     \* longest criteria list the provider extracts

(* Texts. None of them holds a comma, a quote or a line break, so the csv  *)
(* module writes them unquoted.                                            *)
CriterionTexts == {"X", "Y"}
CriteriaInputs == {<<"X">>, <<"X", "Y">>}
ScoreValues == {3, 6}
CandidateNames == {"Ann"}
ProviderErrors == {"Request timed out.", "Connection error."}

(* File names as sequences of characters: the names a job description is   *)
(* drawn from.                                                             *)
FileNames ==
    { <<"c", "v", ".", "p", "d", "f">>,
      <<"C", "V", ".", "P", "D", "F">>,
      <<"C", "v", ".", "D", "o", "c", "X">>,
      <<"c", "v", ".", "t", "x", "t">>,
      <<"c", "v", ".", "d", "o", "c">>,
      <<"c", "v", "p", "d", "f">>,
      <<"c", "v", ".", "p", "d", "f", ".", "b", "a", "k">>,
      <<"d", "o", "c", "x">>,
      <<>> }

(* The names the resumes of a batch are drawn from.                        *)
ResumeFileNames ==
    { <<"c", "v", ".", "p", "d", "f">>,
      <<"C", "v", ".", "D", "o", "c", "X">>,
      <<"c", "v", ".", "t", "x", "t">>,
      <<"c", "v", "p", "d", "f">>,
      <<>> }

-----------------------------------------------------------------------------
(* str.lower() and str.endswith() on the characters file names use.        *)

UpperCase == <<"A","B","C","D","E","F","G","H","I","J","K","L","M",
               "N","O","P","Q","R","S","T","U","V","W","X","Y","Z">>
LowerCase == <<"a","b","c","d","e","f","g","h","i","j","k","l","m",
               "n","o","p","q","r","s","t","u","v","w","x","y","z">>

LowerChar(c) ==
    IF \E k \in 1..Len(UpperCase) : UpperCase[k] = c
    THEN LowerCase[CHOOSE k \in 1..Len(UpperCase) : UpperCase[k] = c]
    ELSE c

Lower(s) == [k \in 1..Len(s) |-> LowerChar(s[k])]

EndsWith(s, suffix) ==
    /\ Len(s) >= Len(suffix)
    /\ SubSeq(s, Len(s) - Len(suffix) + 1, Len(s)) = suffix

PDF_SUFFIX == <<".", "p", "d", "f">>
DOCX_SUFFIX == <<".", "d", "o", "c", "x">>

-----------------------------------------------------------------------------
(* Python values and dicts.  A dict is the sequence of its items in        *)
(* insertion order; assigning an existing key keeps its position and       *)
(* replaces its value.                                                     *)

IntV(n) == [int |-> n]
StrV(s) == [str |-> s]
IsInt(v) == DOMAIN v = {"int"}

Keys(d) == [k \in 1..Len(d) |-> d[k].key]
KeySet(d) == {d[k].key : k \in 1..Len(d)}
HasKey(d, key) == key \in KeySet(d)
DictGet(d, key) == d[CHOOSE k \in 1..Len(d) : d[k].key = key].val

DictSet(d, key, val) ==
    IF HasKey(d, key)
    THEN [k \in 1..Len(d) |-> IF d[k].key = key THEN [key |-> key, val |-> val] ELSE d[k]]
    ELSE Append(d, [key |-> key, val |-> val])

RECURSIVE DictUpdate(_, _)
DictUpdate(d, items) ==
    IF items = <<>> THEN d
    ELSE DictUpdate(DictSet(d, Head(items).key, Head(items).val), Tail(items))

RECURSIVE SumValues(_)
SumValues(d) == IF d = <<>> THEN 0 ELSE Head(d).val.int + SumValues(Tail(d))

(* str(int) as the csv writer applies it to a non-string cell.             *)
Digits == <<"0", "1", "2", "3", "4", "5", "6", "7", "8", "9">>

RECURSIVE NatToStr(_)
NatToStr(n) ==
    IF n < 10 THEN Digits[n + 1]
    ELSE NatToStr(n \div 10) \o Digits[(n % 10) + 1]

IntToStr(n) == IF n < 0 THEN "-" \o NatToStr(0 - n) ELSE NatToStr(n)

RECURSIVE JoinWith(_, _)
JoinWith(sep, strs) ==
    IF strs = <<>> THEN ""
    ELSE IF Len(strs) = 1 THEN strs[1]
    ELSE strs[1] \o sep \o JoinWith(sep, Tail(strs))

RECURSIVE ConcatAll(_)
ConcatAll(strs) == IF strs = <<>> THEN "" ELSE Head(strs) \o ConcatAll(Tail(strs))

-----------------------------------------------------------------------------
(* Outcomes of a call: a returned value, or a raised exception together    *)
(* with the logging.error records written before it was raised.            *)

Return(v) == [raised |-> FALSE, value |-> v, log |-> <<>>]
RaiseHTTPException(status_code, detail, log) ==
    [raised |-> TRUE, status_code |-> status_code, detail |-> detail, log |-> log]

(* What the document parsers can do with a file's bytes.                   *)
ParseOutcomes ==
    { [ok |-> TRUE, text |-> "resume text"],
      [ok |-> FALSE, error |-> "EOF marker not found"] }

(* What the provider can do with a request: raise, or return a value of    *)
(* the requested schema.  ResumeScore and Criteria restrict neither the    *)
(* criterion texts, nor the scores, nor the length of the lists.           *)
SeqsUpTo(S, n) == UNION {[1..k -> S] : k \in 0..n}

CriterionScore == [criterion : CriterionTexts, score : ScoreValues]
ResumeScore ==
    [candidate_name : CandidateNames, criterion_scores : SeqsUpTo(CriterionScore, MaxScores)]
Criteria == [criteria : SeqsUpTo(CriterionTexts, MaxCriteria)]

ProviderOutcomes(schema) ==
    {[ok |-> TRUE, parsed |-> v] : v \in schema}
        \cup {[ok |-> FALSE, error |-> e] : e \in ProviderErrors}

-----------------------------------------------------------------------------
(* app/utils/file_utils.py                                                 *)

PDF_ERROR == "Error extracting text from PDF."
DOCX_ERROR == "Error extracting text from the document."
UNSUPPORTED_ERROR == "Unsupported file format. Only PDF and DOCX are supported."

extract_text_from_pdf(parse) ==
    IF parse.ok THEN Return(parse.text)
    ELSE RaiseHTTPException(500, PDF_ERROR, <<PDF_ERROR \o " : " \o parse.error>>)

extract_text_from_docx(parse) ==
    IF parse.ok THEN Return(parse.text)
    ELSE RaiseHTTPException(500, DOCX_ERROR, <<DOCX_ERROR \o " : " \o parse.error>>)

(* Mutant: the suffix is compared without lower-casing the name.           *)
extract_text_from_file_CaseSensitive(name, parse) ==
    IF EndsWith(name, PDF_SUFFIX)
    THEN extract_text_from_pdf(parse) @@ [parser |-> "pdf"]
    ELSE IF EndsWith(name, DOCX_SUFFIX)
    THEN extract_text_from_docx(parse) @@ [parser |-> "docx"]
    ELSE RaiseHTTPException(400, UNSUPPORTED_ERROR, <<UNSUPPORTED_ERROR>>) @@ [parser |-> "none"]

(* The outcome carries, besides, the parser the bytes were handed to.      *)
extract_text_from_file(name, parse) ==
    IF EndsWith(Lower(name), PDF_SUFFIX)
    THEN extract_text_from_pdf(parse) @@ [parser |-> "pdf"]
    ELSE IF EndsWith(Lower(name), DOCX_SUFFIX)
    THEN extract_text_from_docx(parse) @@ [parser |-> "docx"]
    ELSE RaiseHTTPException(400, UNSUPPORTED_ERROR, <<UNSUPPORTED_ERROR>>) @@ [parser |-> "none"]

-----------------------------------------------------------------------------
(* app/services/llm_service.py                                             *)

LLM_ERROR == "An unexpected error occurred while processing your request. Please try again later."
LLM_LOG_PREFIX == "OpenAI GPT API call failed while parsing the response : "
INVALID_JD_ERROR == "Invalid file. Please upload a valid job description."

(* Mutant: the detail of the exception is the provider's own text.         *)
call_gpt_api_LeaksError(provider) ==
    IF provider.ok THEN Return(provider.parsed)
    ELSE RaiseHTTPException(500, provider.error, <<LLM_LOG_PREFIX \o provider.error>>)

call_gpt_api(provider) ==
    IF provider.ok THEN Return(provider.parsed)
    ELSE RaiseHTTPException(500, LLM_ERROR, <<LLM_LOG_PREFIX \o provider.error>>)

(* Mutant: the empty list is returned like any other.                      *)
extract_job_criteria_NoCheck(job_description, provider) ==
    call_gpt_api(provider)

extract_job_criteria(job_description, provider) ==
    LET llm == call_gpt_api(provider)
    IN  IF llm.raised THEN llm
        ELSE IF Len(llm.value.criteria) = 0
             THEN RaiseHTTPException(400, INVALID_JD_ERROR, <<INVALID_JD_ERROR>>)
             ELSE Return(llm.value)

score_resume(resume_criteria, content, provider) == call_gpt_api(provider)

-----------------------------------------------------------------------------
(* app/routers/api.py: the row of one resume and the CSV report.           *)

CANDIDATE_NAME == "Candidate Name"
TOTAL_SCORE == "Total Score"

(* Mutant: a repeated criterion text keeps its first score, not its last.  *)
RECURSIVE DictUpdateKeepFirst(_, _)
DictUpdateKeepFirst(d, items) ==
    IF items = <<>> THEN d
    ELSE DictUpdateKeepFirst(
            IF HasKey(d, Head(items).key) THEN d
            ELSE DictSet(d, Head(items).key, Head(items).val),
            Tail(items))

ScoresByCriterion_KeepFirst(score) ==
    DictUpdateKeepFirst(<<>>, [k \in 1..Len(score.criterion_scores) |->
        [key |-> score.criterion_scores[k].criterion,
         val |-> IntV(score.criterion_scores[k].score)]])

(* api.py:162-165, the dict comprehension over criterion_scores.           *)
ScoresByCriterion(score) ==
    DictUpdate(<<>>, [k \in 1..Len(score.criterion_scores) |->
        [key |-> score.criterion_scores[k].criterion,
         val |-> IntV(score.criterion_scores[k].score)]])

(* api.py:168 *)
TotalScore(scores_by_criterion) == SumValues(scores_by_criterion)

(* Mutant: the row keeps only the scores whose text is a submitted         *)
(* criterion.                                                              *)
BuildRow_MatchedOnly(score) ==
    LET matched == SelectSeq(score.criterion_scores,
                       LAMBDA cs : \E k \in 1..Len(criteria) : criteria[k] = cs.criterion)
        scores_by_criterion ==
            DictUpdate(<<>>, [k \in 1..Len(matched) |->
                [key |-> matched[k].criterion, val |-> IntV(matched[k].score)]])
    IN  DictSet(
            DictUpdate(<<[key |-> CANDIDATE_NAME, val |-> StrV(score.candidate_name)]>>,
                       scores_by_criterion),
            TOTAL_SCORE, IntV(SumValues(scores_by_criterion)))

(* api.py:171-175, the dict display with the ** unpacking in the middle.   *)
BuildRow(score) ==
    LET scores_by_criterion == ScoresByCriterion(score)
    IN  DictSet(
            DictUpdate(<<[key |-> CANDIDATE_NAME, val |-> StrV(score.candidate_name)]>>,
                       scores_by_criterion),
            TOTAL_SCORE, IntV(TotalScore(scores_by_criterion)))

(* csv.DictWriter with its defaults: restval "" and extrasaction "raise".  *)
Cell(v) == IF IsInt(v) THEN IntToStr(v.int) ELSE v.str

WrongFields(rowdict, fieldnames) ==
    KeySet(rowdict) \ {fieldnames[k] : k \in 1..Len(fieldnames)}

(* Mutant: a missing field is written as 0.                                *)
DictToList_RestvalZero(rowdict, fieldnames) ==
    [k \in 1..Len(fieldnames) |->
        IF HasKey(rowdict, fieldnames[k]) THEN Cell(DictGet(rowdict, fieldnames[k])) ELSE "0"]

DictToList(rowdict, fieldnames) ==
    [k \in 1..Len(fieldnames) |->
        IF HasKey(rowdict, fieldnames[k]) THEN Cell(DictGet(rowdict, fieldnames[k])) ELSE ""]

(* The position of the first row writerows rejects, 0 when it writes all.  *)
FirstRejected(rows, fieldnames) ==
    IF \E k \in 1..Len(rows) : WrongFields(rows[k], fieldnames) # {}
    THEN CHOOSE k \in 1..Len(rows) :
            /\ WrongFields(rows[k], fieldnames) # {}
            /\ \A j \in 1..(k - 1) : WrongFields(rows[j], fieldnames) = {}
    ELSE 0

(* The buffer after writeheader and writerows: the header and the rows up  *)
(* to the first rejected one.                                              *)
WriteRows(rows) ==
    LET fieldnames == Keys(rows[1])
        bad == FirstRejected(rows, fieldnames)
        last == IF bad = 0 THEN Len(rows) ELSE bad - 1
    IN  <<fieldnames>> \o [k \in 1..last |-> DictToList(rows[k], fieldnames)]

(* buffer.getvalue(): cells joined by "," and every row ended by "\r\n".   *)
GetValue(written) ==
    ConcatAll([k \in 1..Len(written) |-> JoinWith(",", written[k]) \o "\r\n"])

-----------------------------------------------------------------------------
(* What the API consumer receives.                                         *)

NoResponse == [status |-> 0]
NoValue == [none |-> TRUE]

(* FastAPI's handler for HTTPException.                                    *)
HTTPExceptionResponse(e) ==
    [status |-> e.status_code, media_type |-> "application/json", detail |-> e.detail]

(* Any other exception leaves the handler and the server answers 500.      *)
UnhandledExceptionResponse ==
    [status |-> 500, media_type |-> "text/plain", content |-> "Internal Server Error"]

(* api.py:195 *)
CsvResponse(csv_content) ==
    [status |-> 200, media_type |-> "text/csv", content |-> csv_content]

(* api.py:86 with response_model=Criteria *)
CriteriaResponse(c) ==
    [status |-> 200, media_type |-> "application/json", criteria |-> c.criteria]

-----------------------------------------------------------------------------
(* The requests.                                                           *)

Init ==
    /\ endpoint \in {"/extract-criteria", "/score-resumes"}
    /\ IF endpoint = "/score-resumes"
       THEN /\ criteria \in CriteriaInputs
            /\ n_files \in 0..MaxResumes
            /\ pc = "loop"
       ELSE /\ criteria = <<>>
            /\ n_files = 1
            /\ pc = "job_description"
    /\ i = 0
    /\ file_name = <<>>
    /\ parser_invoked = "none"
    /\ extracted_text = ""
    /\ parsed = NoValue
    /\ resume_scores = <<>>
    /\ buffer = <<>>
    /\ response = NoResponse
    /\ error_log = <<>>
    /\ provider_error = ""
    /\ trace = <<>>

(* Mutant: score_resumes logs the failure of a resume and goes on to the   *)
(* next one.                                                               *)
Abort_SkipResume(e) ==
    /\ pc' = IF endpoint = "/score-resumes" THEN "loop" ELSE "done"
    /\ response' = IF endpoint = "/score-resumes" THEN response ELSE HTTPExceptionResponse(e)
    /\ error_log' = error_log \o e.log

(* An HTTPException leaves the handler: the request ends with its response. *)
Abort(e) ==
    /\ pc' = "done"
    /\ response' = HTTPExceptionResponse(e)
    /\ error_log' = error_log \o e.log

(* api.py:76-80, extract_criteria up to the text of the job description.   *)
ReadJobDescription ==
    /\ pc = "job_description"
    /\ \E name \in FileNames, parse \in ParseOutcomes :
        LET text == extract_text_from_file(name, parse)
        IN  /\ i' = 1
            /\ file_name' = name
            /\ parser_invoked' = text.parser
            /\ trace' = Append(trace, <<"extract_text_from_file", 1>>)
            /\ IF text.raised
               THEN /\ Abort(text)
                    /\ UNCHANGED extracted_text
               ELSE /\ extracted_text' = text.value
                    /\ pc' = "criteria"
                    /\ UNCHANGED <<response, error_log>>
    /\ UNCHANGED <<endpoint, criteria, n_files, parsed, resume_scores,
                   buffer, provider_error>>

(* api.py:83-86, extract_criteria from the LLM call to the response.       *)
ExtractCriteria ==
    /\ pc = "criteria"
    /\ \E provider \in ProviderOutcomes(Criteria) :
        LET extracted == extract_job_criteria(extracted_text, provider)
        IN  /\ trace' = Append(trace, <<"call_gpt_api", 1>>)
            /\ provider_error' = IF provider.ok THEN provider_error ELSE provider.error
            /\ parsed' = IF provider.ok THEN provider.parsed ELSE parsed
            /\ IF extracted.raised
               THEN Abort(extracted)
               ELSE /\ pc' = "done"
                    /\ response' = CriteriaResponse(extracted.value)
                    /\ UNCHANGED error_log
    /\ UNCHANGED <<endpoint, criteria, n_files, i, file_name, parser_invoked,
                   extracted_text, resume_scores, buffer>>

(* api.py:152-155, score_resumes: the next file of file_list is read and   *)
(* its text extracted.                                                     *)
ReadResume ==
    /\ pc = "loop"
    /\ i < n_files
    /\ \E name \in ResumeFileNames, parse \in ParseOutcomes :
        LET text == extract_text_from_file(name, parse)
        IN  /\ i' = i + 1
            /\ file_name' = name
            /\ parser_invoked' = text.parser
            /\ trace' = Append(trace, <<"extract_text_from_file", i + 1>>)
            /\ IF text.raised
               THEN /\ Abort(text)
                    /\ UNCHANGED extracted_text
               ELSE /\ extracted_text' = text.value
                    /\ pc' = "score"
                    /\ UNCHANGED <<response, error_log>>
    /\ UNCHANGED <<endpoint, criteria, n_files, parsed, resume_scores,
                   buffer, provider_error>>

(* api.py:158-177, score_resumes: the resume is scored and its row         *)
(* appended to resume_scores.                                              *)
ScoreResumeFrom(schema) ==
    /\ pc = "score"
    /\ \E provider \in ProviderOutcomes(schema) :
        LET scored == score_resume(criteria, extracted_text, provider)
        IN  /\ trace' = Append(trace, <<"call_gpt_api", i>>)
            /\ provider_error' = IF provider.ok THEN provider_error ELSE provider.error
            /\ IF scored.raised
               THEN /\ Abort(scored)
                    /\ UNCHANGED <<parsed, resume_scores>>
               ELSE /\ parsed' = scored.value
                    /\ resume_scores' = Append(resume_scores, BuildRow(scored.value))
                    /\ pc' = "loop"
                    /\ UNCHANGED <<response, error_log>>
    /\ UNCHANGED <<endpoint, criteria, n_files, i, file_name, parser_invoked,
                   extracted_text, buffer>>

ScoreResume == ScoreResumeFrom(ResumeScore)

(* Mutant: the field names are taken from resume_scores[0] without the     *)
(* test for an empty list, which raises IndexError.                        *)
BuildReport_Unguarded ==
    /\ pc = "loop"
    /\ i = n_files
    /\ pc' = "done"
    /\ IF resume_scores # <<>>
       THEN /\ buffer' = WriteRows(resume_scores)
            /\ response' =
                IF FirstRejected(resume_scores, Keys(resume_scores[1])) = 0
                THEN CsvResponse(GetValue(WriteRows(resume_scores)))
                ELSE UnhandledExceptionResponse
       ELSE /\ response' = UnhandledExceptionResponse
            /\ UNCHANGED buffer
    /\ UNCHANGED <<endpoint, criteria, n_files, i, file_name, parser_invoked,
                   extracted_text, parsed, resume_scores, error_log,
                   provider_error, trace>>

(* api.py:179-196, score_resumes after the loop: the CSV and the response. *)
(* The ValueError writerows raises for a row with a key outside fieldnames *)
(* is caught nowhere.                                                      *)
BuildReport ==
    /\ pc = "loop"
    /\ i = n_files
    /\ pc' = "done"
    /\ IF resume_scores # <<>>
       THEN /\ buffer' = WriteRows(resume_scores)
            /\ response' =
                IF FirstRejected(resume_scores, Keys(resume_scores[1])) = 0
                THEN CsvResponse(GetValue(WriteRows(resume_scores)))
                ELSE UnhandledExceptionResponse
       ELSE /\ response' = CsvResponse("")
            /\ UNCHANGED buffer
    /\ UNCHANGED <<endpoint, criteria, n_files, i, file_name, parser_invoked,
                   extracted_text, parsed, resume_scores, error_log,
                   provider_error, trace>>

Next ==
    \/ ReadJobDescription
    \/ ExtractCriteria
    \/ ReadResume
    \/ ScoreResume
    \/ BuildReport

Spec == Init /\ [][Next]_vars

(* The same requests with a provider whose criterion texts include the two *)
(* fixed column names of the report; the schema allows any str.            *)
ReservedTexts == {"X", CANDIDATE_NAME, TOTAL_SCORE}
ReservedCriterionScore == [criterion : ReservedTexts, score : ScoreValues]
ResumeScoreReserved ==
    [candidate_name : CandidateNames,
     criterion_scores : SeqsUpTo(ReservedCriterionScore, MaxScores)]

ScoreResumeReserved == ScoreResumeFrom(ResumeScoreReserved)

NextReserved ==
    \/ ReadJobDescription
    \/ ExtractCriteria
    \/ ReadResume
    \/ ScoreResumeReserved
    \/ BuildReport

SpecReserved == Init /\ [][NextReserved]_vars

-----------------------------------------------------------------------------
(* Vocabulary of the properties.                                           *)

ScoreRequest == endpoint = "/score-resumes"
CriteriaRequest == endpoint = "/extract-criteria"

(* The loop of score_resumes ran to its end and the report step is over.   *)
AllScored == ScoreRequest /\ pc = "done" /\ Len(resume_scores) = n_files

(* score_resume has just returned for the file at position i and its row   *)
(* is the last of resume_scores.                                           *)
JustScored == ScoreRequest /\ pc = "loop" /\ i >= 1 /\ Len(resume_scores) = i

IsCsv == response.status = 200 /\ response.media_type = "text/csv"

CriterionKeys(row) == KeySet(row) \ {CANDIDATE_NAME, TOTAL_SCORE}
SubmittedCriteria == {criteria[k] : k \in 1..Len(criteria)}
ReturnedTexts(scores) == {scores[k].criterion : k \in 1..Len(scores)}

(* The position of a column in the header, 0 when the header lacks it.     *)
Column(header, text) ==
    IF \E k \in 1..Len(header) : header[k] = text
    THEN CHOOSE k \in 1..Len(header) : header[k] = text
    ELSE 0

(* A name ends in the suffix, its letters in either case.                  *)
SameLetter(c, s) ==
    \/ c = s
    \/ \E k \in 1..Len(LowerCase) : LowerCase[k] = s /\ UpperCase[k] = c

HasSuffixAnyCase(name, suffix) ==
    /\ Len(name) >= Len(suffix)
    /\ \A k \in 1..Len(suffix) : SameLetter(name[Len(name) - Len(suffix) + k], suffix[k])

(* The sum of the scores a row holds under its criterion texts.            *)
RECURSIVE SumOfOwnScores(_)
SumOfOwnScores(row) ==
    IF row = <<>> THEN 0
    ELSE (IF Head(row).key \in {CANDIDATE_NAME, TOTAL_SCORE} THEN 0 ELSE Head(row).val.int)
            + SumOfOwnScores(Tail(row))

RECURSIVE SumOfScores(_)
SumOfScores(scores) ==
    IF scores = <<>> THEN 0 ELSE Head(scores).score + SumOfScores(Tail(scores))

(* The score of the last entry returned for a criterion text.              *)
LastScore(scores, text) ==
    scores[CHOOSE k \in 1..Len(scores) :
              /\ scores[k].criterion = text
              /\ \A j \in (k + 1)..Len(scores) : scores[j].criterion # text].score

RECURSIVE SumOfLastScores(_, _)
SumOfLastScores(scores, texts) ==
    IF texts = {} THEN 0
    ELSE LET t == CHOOSE x \in texts : TRUE
         IN  LastScore(scores, t) + SumOfLastScores(scores, texts \ {t})

-----------------------------------------------------------------------------
(* C1: in /score-resumes, for a batch of two or more scored resumes in     *)
(* which a resume after the first has a score for a criterion text the     *)
(* first has none for, the report is still produced: the request succeeds  *)
(* with the CSV, whose header is the first resume's column set, and the    *)
(* extra criterion has no column.                                          *)
C1_ExtraCriterionOmitted ==
    ( /\ AllScored
      /\ n_files >= 2
      /\ \E k \in 2..n_files :
            ~(CriterionKeys(resume_scores[k]) \subseteq CriterionKeys(resume_scores[1])) )
    => /\ IsCsv
       /\ Len(buffer) = n_files + 1
       /\ buffer[1] = Keys(resume_scores[1])
       /\ response.content = GetValue(buffer)

(* C2 as claimed: the Total Score of the row just built is the sum of the  *)
(* score fields of all CriterionScore entries returned for that resume.    *)
C2_TotalIsSumOfAllEntries ==
    JustScored =>
        DictGet(resume_scores[i], TOTAL_SCORE) = IntV(SumOfScores(parsed.criterion_scores))

(* C2 as amended: the Total Score of the row just built is the sum, over   *)
(* the distinct criterion texts returned for that resume, of the score of  *)
(* the last entry returned for the text; and when the CSV is produced the  *)
(* last cell of the last resume's line is that number in decimal.          *)
C2_TotalIsSumOverDistinctTexts ==
    LET total == SumOfLastScores(parsed.criterion_scores,
                                 ReturnedTexts(parsed.criterion_scores))
    IN  /\ JustScored => DictGet(resume_scores[i], TOTAL_SCORE) = IntV(total)
        /\ (AllScored /\ n_files >= 1 /\ IsCsv) =>
              buffer[n_files + 1][Len(buffer[1])] = IntToStr(total)

(* C2 witness: a resume for which the provider repeated a criterion text   *)
(* with two different scores has its row and the CSV is produced.          *)
C2_Witness ==
    /\ AllScored /\ IsCsv
    /\ n_files = 2
    /\ parsed.criterion_scores = <<[criterion |-> "X", score |-> 6],
                                   [criterion |-> "X", score |-> 3]>>

C4_FailureIsTerminal ==
    ScoreRequest =>
        /\ \A k \in 1..Len(trace) :
              trace[k] = IF k % 2 = 1
                         THEN <<"extract_text_from_file", (k + 1) \div 2>>
                         ELSE <<"call_gpt_api", k \div 2>>
        /\ response # NoResponse => pc = "done"
        /\ (pc = "done" /\ Len(resume_scores) < n_files) =>
              /\ i = Len(resume_scores) + 1
              /\ Len(trace) \in {2 * i - 1, 2 * i}
              /\ response.status \in {400, 500}
              /\ response.media_type = "application/json"
              /\ response.detail \in
                    IF Len(trace) = 2 * i - 1
                    THEN {UNSUPPORTED_ERROR, PDF_ERROR, DOCX_ERROR}
                    ELSE {LLM_ERROR}
              /\ buffer = <<>>
              /\ ~ENABLED Next

(* C4 witness: the first resume of two was scored, the extraction of the   *)
(* second failed in the parser and the request ended with status 500.      *)
C4_Witness ==
    /\ ScoreRequest /\ pc = "done"
    /\ n_files = 2
    /\ Len(resume_scores) = 1
    /\ Len(trace) = 3
    /\ response.status = 500

(* C5: whatever exception the provider raises, the call fails with status  *)
(* 500 and one fixed detail, so the response is the same for every         *)
(* provider error text; the text is in the last record of the server log   *)
(* and nowhere in the response.                                            *)
C5_GenericLlmFailure ==
    provider_error # "" =>
        /\ pc = "done"
        /\ response =
              [status |-> 500, media_type |-> "application/json",
               detail |-> "An unexpected error occurred while processing your request. Please try again later."]
        /\ error_log # <<>>
        /\ error_log[Len(error_log)] =
              "OpenAI GPT API call failed while parsing the response : " \o provider_error

(* C5 witness: the provider raised "Connection error." while the second    *)
(* resume of a batch was being scored.                                     *)
C5_Witness ==
    /\ ScoreRequest /\ pc = "done"
    /\ i = 2
    /\ provider_error = "Connection error."
    /\ response.status = 500

(* C6: extract_job_criteria never returns an empty Criteria.  When the     *)
(* LLM call returned a list of length 0 the request fails with status 400  *)
(* and the invalid-job-description detail; when it returned a list of      *)
(* length 1 or more, the result is that list, entry for entry.             *)
C6_NeverEmptyCriteria ==
    CriteriaRequest =>
        /\ response.status = 200 => response.criteria # <<>>
        /\ (pc = "done" /\ parsed # NoValue) =>
              IF Len(parsed.criteria) = 0
              THEN response =
                      [status |-> 400, media_type |-> "application/json",
                       detail |-> "Invalid file. Please upload a valid job description."]
              ELSE response =
                      [status |-> 200, media_type |-> "application/json",
                       criteria |-> parsed.criteria]

(* C6 witness: the LLM call returned the empty list and the request ended  *)
(* with status 400.                                                        *)
C6_Witness ==
    /\ CriteriaRequest /\ pc = "done"
    /\ parsed = [criteria |-> <<>>]
    /\ response.status = 400

(* C7: when the criterion texts of every later row are among the first     *)
(* row's, the CSV is produced; its header is Candidate Name, the first     *)
(* resume's criterion texts in its order, Total Score; a later line has an *)
(* empty cell under each criterion its resume has no score for, its own    *)
(* score under the others, and as Total Score the sum of its own scores.   *)
C7_SubsetRowHasEmptyCells ==
    ( /\ AllScored
      /\ n_files >= 2
      /\ \A k \in 2..n_files :
            CriterionKeys(resume_scores[k]) \subseteq CriterionKeys(resume_scores[1]) )
    => /\ IsCsv
       /\ Len(buffer) = n_files + 1
       /\ LET header == buffer[1]
          IN  /\ header = Keys(resume_scores[1])
              /\ header[1] = CANDIDATE_NAME
              /\ header[Len(header)] = TOTAL_SCORE
              /\ \A k \in 2..n_files :
                    /\ Len(buffer[k + 1]) = Len(header)
                    /\ \A c \in 2..(Len(header) - 1) :
                          buffer[k + 1][c] =
                              IF HasKey(resume_scores[k], header[c])
                              THEN IntToStr(DictGet(resume_scores[k], header[c]).int)
                              ELSE ""
                    /\ buffer[k + 1][Len(header)] = IntToStr(SumOfOwnScores(resume_scores[k]))
       /\ response.content = GetValue(buffer)

(* C7 witness: the first resume was scored on "X" and "Y", the second on   *)
(* "Y" alone with 6, and the second line of the CSV is Ann,,6,6.           *)
C7_Witness ==
    /\ AllScored /\ IsCsv
    /\ n_files = 2
    /\ buffer[1] = <<CANDIDATE_NAME, "X", "Y", TOTAL_SCORE>>
    /\ Keys(resume_scores[2]) = <<CANDIDATE_NAME, "Y", TOTAL_SCORE>>
    /\ buffer[3] = <<"Ann", "", "6", "6">>

(* C8: a file whose lower-cased name ends in neither ".pdf" nor ".docx" is *)
(* rejected with status 400 and the unsupported-format detail, no parser   *)
(* is invoked and no LLM call is made for it, in both endpoints; a name    *)
(* ending in ".pdf" or ".docx" in any letter case goes to the PDF or the   *)
(* DOCX parser.                                                            *)
C8_UnsupportedFormatRejected ==
    i >= 1 =>
        /\ ( /\ ~EndsWith(Lower(file_name), PDF_SUFFIX)
             /\ ~EndsWith(Lower(file_name), DOCX_SUFFIX) )
           => /\ pc = "done"
              /\ response =
                    [status |-> 400, media_type |-> "application/json",
                     detail |-> "Unsupported file format. Only PDF and DOCX are supported."]
              /\ parser_invoked = "none"
              /\ trace[Len(trace)] = <<"extract_text_from_file", i>>
        /\ HasSuffixAnyCase(file_name, PDF_SUFFIX) => parser_invoked = "pdf"
        /\ HasSuffixAnyCase(file_name, DOCX_SUFFIX) => parser_invoked = "docx"

(* C8 witness: the second resume of a batch is named "cvpdf" and the       *)
(* request ended with status 400.                                          *)
C8_Witness ==
    /\ ScoreRequest /\ pc = "done"
    /\ i = 2
    /\ file_name = <<"c", "v", "p", "d", "f">>
    /\ response.status = 400

(* C9: the ResumeScore that score_resume returns for a criteria list of N  *)
(* entries has at most N criterion_scores entries, and every score in it   *)
(* is in the range 0 to 5.                                                 *)
C9_ScoresBounded ==
    JustScored =>
        /\ Len(parsed.criterion_scores) <= Len(criteria)
        /\ \A k \in 1..Len(parsed.criterion_scores) :
              parsed.criterion_scores[k].score \in 0..5

C11_FixedColumnsKeepTheirMeaning ==
    JustScored =>
        LET row == resume_scores[i]
        IN  /\ DictGet(row, CANDIDATE_NAME) = StrV(parsed.candidate_name)
            /\ DictGet(row, TOTAL_SCORE) =
                  IntV(SumOfLastScores(parsed.criterion_scores,
                                       ReturnedTexts(parsed.criterion_scores)))
            /\ Keys(row)[1] = CANDIDATE_NAME
            /\ Keys(row)[Len(row)] = TOTAL_SCORE

====
